---- MODULE Spec2Model ----
(***************************************************************************)
(* Model of the notebook vectorize-string-columns/00-create-names-table:   *)
(* a table of retailer names is written, every name is embedded by the     *)
(* hosted model (ai_query), the embeddings are saved next to the names,    *)
(* two Python UDFs (dot_product, vector_norm) are registered, and a        *)
(* similarity query selects the rows whose dot product with the embedding  *)
(* of 'kohls' is above 0.95, ordered by that score.                        *)
(*                                                                         *)
(* Numbers.  Vector components are small integers, which binary64 holds    *)
(* exactly, so sums of products are exact.  In the pipeline a component n  *)
(* stands for n/10 and a score s for s/100, which makes the 0.95 of the    *)
(* query the integer 95.  The results of vector_norm are floating-point    *)
(* numbers: they are modelled with a mantissa of MantBits bits, rounded to *)
(* nearest, ties to even, as IEEE 754 does with 53 bits.                   *)
(***************************************************************************)
EXTENDS Integers, Sequences, FiniteSets, Bags, TLC

VARIABLES
    widgets,    \* values of the notebook widgets "catalog" and "schema"
    config,     \* the Python variables catalog and schema (or Undefined)
    session,    \* current catalog and schema of the Spark session
    namespaces, \* the catalog/schema pairs that exist in the metastore
    tables,     \* the retailer_names table of each catalog/schema
    df,         \* the Python variable df
    udfs,       \* names of the UDFs registered for SQL
    aiCalls,    \* texts sent to ai_query by the cell that ran last
    result,     \* output of the similarity query
    prev,       \* output of the similarity query before its last run
    pc,         \* the next cell of the notebook to run
    embedder,   \* the hosted embedding model: text -> vector
    call        \* last direct call of dot_product or vector_norm

vars == <<widgets, config, session, namespaces, tables, df, udfs, aiCalls,
          result, prev, pc, embedder, call>>

pipelineVars == <<widgets, config, session, namespaces, tables, df, udfs, aiCalls, result,
                  prev, pc, embedder>>

(***************************************************************************)
(* Bounds of the model.                                                    *)
(***************************************************************************)
MaxLen == 2

MantBits == 12

Comps == {-1, 0, 1, 3, 4}

Orders == {-1, 0, 1, 2}

RECURSIVE SeqsUpTo(_, _)
SeqsUpTo(S, n) ==
    IF n = 0 THEN {<<>>}
    ELSE LET shorter == SeqsUpTo(S, n - 1)
         IN  shorter \cup {Append(s, x) : s \in {t \in shorter : Len(t) = n - 1}, x \in S}

MathVectors == SeqsUpTo(Comps, MaxLen)

(***************************************************************************)
(* Floating-point numbers: [inf, m, e] is m * 2^e, or +infinity.           *)
(***************************************************************************)
RECURSIVE Pow2(_)
Pow2(n) == IF n <= 0 THEN 1 ELSE 2 * Pow2(n - 1)

Abs(x) == IF x < 0 THEN -x ELSE x

FlZero == [inf |-> FALSE, m |-> 0, e |-> 0]

FlInf == [inf |-> TRUE, m |-> 0, e |-> 0]

Fl(m, e) == [inf |-> FALSE, m |-> m, e |-> e]

\* number of bits of a natural number
RECURSIVE BitLen(_)
BitLen(n) == IF n = 0 THEN 0 ELSE 1 + BitLen(n \div 2)

\* M * 2^e rounded to MantBits bits, to nearest, ties to even
FlRoundInt(M, e) ==
    IF M = 0 THEN FlZero
    ELSE LET bits == BitLen(M)
         IN  IF bits <= MantBits
             THEN Fl(M * Pow2(MantBits - bits), e - (MantBits - bits))
             ELSE LET sh   == bits - MantBits
                      q    == M \div Pow2(sh)
                      r    == M % Pow2(sh)
                      half == Pow2(sh - 1)
                      up   == r > half \/ (r = half /\ q % 2 = 1)
                      q2   == IF up THEN q + 1 ELSE q
                  IN  IF q2 = Pow2(MantBits)
                      THEN Fl(q2 \div 2, e + sh + 1)
                      ELSE Fl(q2, e + sh)

FlFromInt(n) == FlRoundInt(n, 0)

\* largest r with r * r <= X, one bit at a time from bit b down
RECURSIVE ISqrtFrom(_, _, _)
ISqrtFrom(X, r, b) ==
    IF b < 0 THEN r
    ELSE LET t == r + Pow2(b)
         IN  ISqrtFrom(X, IF t * t <= X THEN t ELSE r, b - 1)

ISqrt(X) == ISqrtFrom(X, 0, MantBits)

\* the square root of the natural number S, correctly rounded
FlSqrtInt(S) ==
    IF S = 0 THEN FlZero
    ELSE LET bits == BitLen(S)
             \* scale S by 4^k so that the root has MantBits bits
             k  == (2 * MantBits - bits) \div 2
             X  == S * Pow2(2 * k)
             m  == ISqrt(X)
             m2 == IF X - m * m > m THEN m + 1 ELSE m
         IN  IF m2 = Pow2(MantBits) THEN Fl(m2 \div 2, 1 - k) ELSE Fl(m2, -k)

\* f * f, rounded
FlSquare(f) ==
    IF f.inf THEN FlInf ELSE FlRoundInt(f.m * f.m, 2 * f.e)

\* f + g, rounded
FlAdd(f, g) ==
    IF f.inf \/ g.inf THEN FlInf
    ELSE IF f.m = 0 THEN g
    ELSE IF g.m = 0 THEN f
    ELSE LET e == IF f.e < g.e THEN f.e ELSE g.e
         IN  FlRoundInt(f.m * Pow2(f.e - e) + g.m * Pow2(g.e - e), e)

\* 1 / f, rounded; 1/0 is +infinity and 1/infinity is 0
FlRecip(f) ==
    IF f.inf THEN FlZero
    ELSE IF f.m = 0 THEN FlInf
    ELSE LET K     == 2 * MantBits
             \* f.m has MantBits bits, so q has MantBits + 1 or + 2 bits
             q     == Pow2(K) \div f.m
             r     == Pow2(K) % f.m
             bits  == BitLen(q)
             sh    == bits - MantBits
             top   == q \div Pow2(sh)
             low   == q % Pow2(sh)
             half  == Pow2(sh - 1)
             up    == low > half \/ (low = half /\ (r > 0 \/ top % 2 = 1))
             top2  == IF up THEN top + 1 ELSE top
         IN  IF top2 = Pow2(MantBits)
             THEN Fl(top2 \div 2, sh + 1 - K - f.e)
             ELSE Fl(top2, sh - K - f.e)

(***************************************************************************)
(* dot_product and vector_norm, the two Python functions behind the UDFs.  *)
(***************************************************************************)
\* np.dot raises ValueError ("shapes not aligned") on 1-d arrays of
\* different lengths; the specification calls this error DimensionMismatch
DimensionMismatch == "ValueError"

RECURSIVE SumProducts(_, _, _)
SumProducts(vec1, vec2, n) ==
    IF n = 0 THEN 0 ELSE SumProducts(vec1, vec2, n - 1) + vec1[n] * vec2[n]

Min(a, b) == IF a < b THEN a ELSE b

\* a dot product that stops at the end of the shorter vector, as zip() does
DotProductTruncating(vec1, vec2) ==
    [status |-> "ok", value |-> SumProducts(vec1, vec2, Min(Len(vec1), Len(vec2)))]

RECURSIVE SumWithHead(_, _, _)
SumWithHead(vec1, vec2, n) ==
    IF n = 0 THEN 0 ELSE SumWithHead(vec1, vec2, n - 1) + vec1[n] * vec1[1] * vec2[n]

\* a dot product that weights every product with the head of vec1
DotProductWeighted(vec1, vec2) ==
    IF Len(vec1) # Len(vec2)
    THEN [status |-> DimensionMismatch, value |-> 0]
    ELSE [status |-> "ok", value |-> SumWithHead(vec1, vec2, Len(vec1))]

dot_product(vec1, vec2) ==
    IF Len(vec1) # Len(vec2)
    THEN [status |-> DimensionMismatch, value |-> 0]
    ELSE [status |-> "ok", value |-> SumProducts(vec1, vec2, Len(vec1))]

RECURSIVE CountNonZero(_, _)
CountNonZero(vec, n) ==
    IF n = 0 THEN 0
    ELSE CountNonZero(vec, n - 1) + (IF vec[n] # 0 THEN 1 ELSE 0)

RECURSIVE SumAbs(_, _)
SumAbs(vec, n) == IF n = 0 THEN 0 ELSE SumAbs(vec, n - 1) + Abs(vec[n])

\* sum of 1/|x| over the components, each quotient and each sum rounded
RECURSIVE SumRecip(_, _)
SumRecip(vec, n) ==
    IF n = 0 THEN FlZero
    ELSE FlAdd(SumRecip(vec, n - 1), FlRecip(FlFromInt(Abs(vec[n]))))

\* np.linalg.norm(vec, ord) of a 1-d array, for the orders of Orders:
\*   ord = 0   the number of non-zero components
\*   ord = 1   the sum of the absolute values
\*   ord = 2   sqrt(x.dot(x))
\*   other     sum(abs(x) ** ord) ** (1 / ord), here for ord = -1
NormValue(vec, ord) ==
    IF ord = 0 THEN FlFromInt(CountNonZero(vec, Len(vec)))
    ELSE IF ord = 1 THEN FlFromInt(SumAbs(vec, Len(vec)))
    ELSE IF ord = 2 THEN FlSqrtInt(SumProducts(vec, vec, Len(vec)))
    ELSE FlRecip(SumRecip(vec, Len(vec)))

InvalidOrder == "InvalidOrder"

\* a norm that rejects the orders for which the Lp-norm is not defined
VectorNormChecked(vec, ord) ==
    IF ord <= 0
    THEN [status |-> InvalidOrder, value |-> 0]
    ELSE [status |-> "ok", value |-> NormValue(vec, ord)]

\* a norm that returns the sum of squares without taking the root
VectorNormNoRoot(vec, ord) ==
    IF ord = 2
    THEN [status |-> "ok", value |-> FlFromInt(SumProducts(vec, vec, Len(vec)))]
    ELSE [status |-> "ok", value |-> NormValue(vec, ord)]

vector_norm(vec, ord) == [status |-> "ok", value |-> NormValue(vec, ord)]

\* def vector_norm(vec, ord=2)
DefaultOrd == 2

(***************************************************************************)
(* Direct calls of the two functions, on the vectors of MathVectors.       *)
(***************************************************************************)
Pending == [status |-> "pending", value |-> 0]

NoCall == [fn |-> "none", vec1 |-> <<>>, vec2 |-> <<>>, ord |-> 0, ret |-> Pending]

\* the calls to make: dot_product(vec1, vec2), vector_norm(vec1, ord) and
\* vector_norm(vec1)
Calls ==
    {[fn |-> "dot_product", vec1 |-> a, vec2 |-> b, ord |-> 0, ret |-> Pending] :
        a \in MathVectors, b \in MathVectors}
    \cup
    {[fn |-> "vector_norm", vec1 |-> a, vec2 |-> <<>>, ord |-> o, ret |-> Pending] :
        a \in MathVectors, o \in Orders}
    \cup
    {[fn |-> "vector_norm_default", vec1 |-> a, vec2 |-> <<>>, ord |-> 0, ret |-> Pending] :
        a \in MathVectors}

CallDotProduct ==
    /\ call.fn = "dot_product"
    /\ call.ret = Pending
    /\ call' = [call EXCEPT !.ret = dot_product(call.vec1, call.vec2)]
    /\ UNCHANGED pipelineVars

CallVectorNorm ==
    /\ call.fn = "vector_norm"
    /\ call.ret = Pending
    /\ call' = [call EXCEPT !.ret = vector_norm(call.vec1, call.ord)]
    /\ UNCHANGED pipelineVars

\* vector_norm(vec): the order is omitted
CallVectorNormDefault ==
    /\ call.fn = "vector_norm_default"
    /\ call.ret = Pending
    /\ call' = [call EXCEPT !.ret = vector_norm(call.vec1, DefaultOrd)]
    /\ UNCHANGED pipelineVars

MathNext ==
    \/ CallDotProduct
    \/ CallVectorNorm
    \/ CallVectorNormDefault

(***************************************************************************)
(* The notebook: its data.                                                 *)
(***************************************************************************)
NumNames == 3

\* the last entries of the list retailer_names
AllNames == <<"Kohls", "Kohls", "Macy's", "Macys">>

retailer_names == SubSeq(AllNames, 1, NumNames)

DefaultCatalog == "amitabh_arora_catalog"

DefaultSchema == "demo_vectorization"

Catalogs == {DefaultCatalog, "other_catalog"}

Schemas == {DefaultSchema, "other_schema"}

Paths == Catalogs \X Schemas

PathOfNothing == <<"undefined", "undefined">>

\* the table that the similarity query names in its FROM clause
SearchPath == <<"amitabh_arora_catalog", "demo_vectorization">>

QueryText == "kohls"

\* 0.95, in hundredths
Threshold == 95

\* embeddings the hosted model may return (components in tenths)
EmbVectors == {<<10, 5>>, <<19, 0>>, <<7, 5>>, <<10>>}

Range(seq) == {seq[i] : i \in 1..Len(seq)}

Texts == Range(retailer_names) \cup {QueryText}

\* a Python variable that no cell has assigned yet
Undefined == [catalog |-> "undefined", schema |-> "undefined"]

NoDataFrame == [kind |-> "undefined", path |-> PathOfNothing, rows |-> <<>>]

\* a table that does not exist
NoTable == [exists |-> FALSE, rows |-> <<>>]

Table(rows) == [exists |-> TRUE, rows |-> rows]

\* a value of the column vector_embedding: NULL or an array
Null == [null |-> TRUE, v |-> <<>>]

Array(v) == [null |-> FALSE, v |-> v]

NoResult == [status |-> "none", path |-> PathOfNothing, emb |-> <<>>,
             cands |-> <<>>, rows |-> <<>>]

Init ==
    /\ widgets = [catalog |-> DefaultCatalog, schema |-> DefaultSchema]
    /\ config = Undefined
    /\ session = Undefined
    /\ namespaces = {}
    /\ tables = [p \in Paths |-> NoTable]
    /\ df = NoDataFrame
    /\ udfs = {}
    /\ aiCalls = <<>>
    /\ result = NoResult
    /\ prev = NoResult
    /\ pc = "widgets"
    /\ embedder \in [Texts -> EmbVectors]
    /\ call = NoCall

(***************************************************************************)
(* The notebook: its cells, run from top to bottom.                        *)
(***************************************************************************)
PathOf(cfg) == <<cfg.catalog, cfg.schema>>

\* [(name,) for name in retailer_names], one row per entry of the list
NameRows ==
    [i \in 1..Len(retailer_names) |->
        [cust_name |-> retailer_names[i], vector_embedding |-> Null]]

ai_query(text) == embedder[text]

\* dbutils.widgets.text(...): a widget that exists keeps its value
CreateWidgets ==
    /\ pc = "widgets"
    /\ pc' = "read_config"
    /\ aiCalls' = <<>>
    /\ UNCHANGED <<widgets, config, session, namespaces, tables, df, udfs,
                   result, embedder, prev, call>>

\* the user types new values into the widgets; only the next cell reads
\* them, so a change made at any other time acts as one made here
SetWidget(c, s) ==
    /\ pc = "read_config"
    /\ widgets # [catalog |-> c, schema |-> s]
    /\ widgets' = [catalog |-> c, schema |-> s]
    /\ UNCHANGED <<config, session, namespaces, tables, df, udfs, aiCalls,
                   result, pc, embedder, prev, call>>

\* catalog = dbutils.widgets.get("catalog"); CREATE CATALOG IF NOT EXISTS;
\* schema = dbutils.widgets.get("schema"); CREATE SCHEMA IF NOT EXISTS
ReadConfig ==
    /\ pc = "read_config"
    /\ config' = widgets
    /\ namespaces' = namespaces \cup {PathOf(widgets)}
    /\ pc' = "create_table"
    /\ aiCalls' = <<>>
    /\ UNCHANGED <<widgets, session, tables, df, udfs, result, embedder, prev, call>>

\* a write in append mode: the rows of the table stay, the names follow them
CreateTableAppend ==
    /\ pc = "create_table"
    /\ PathOf(config) \in namespaces
    /\ df' = [kind |-> "local", path |-> PathOfNothing, rows |-> NameRows]
    /\ tables' = [tables EXCEPT ![PathOf(config)] =
                      Table(tables[PathOf(config)].rows \o NameRows)]
    /\ pc' = "display_table"
    /\ aiCalls' = <<>>
    /\ UNCHANGED <<widgets, config, session, namespaces, udfs, result,
                   embedder, prev, call>>

\* df = spark.createDataFrame(...); df.write.mode("overwrite").saveAsTable(...)
CreateTable ==
    /\ pc = "create_table"
    /\ PathOf(config) \in namespaces
    /\ df' = [kind |-> "local", path |-> PathOfNothing, rows |-> NameRows]
    /\ tables' = [tables EXCEPT ![PathOf(config)] = Table(NameRows)]
    /\ pc' = "display_table"
    /\ aiCalls' = <<>>
    /\ UNCHANGED <<widgets, config, session, namespaces, udfs, result,
                   embedder, prev, call>>

\* spark.sql("select * from ...").display()
DisplayTable ==
    /\ pc = "display_table"
    /\ tables[PathOf(config)].exists
    /\ pc' = "vectorize_query"
    /\ aiCalls' = <<>>
    /\ UNCHANGED <<widgets, config, session, namespaces, tables, df, udfs,
                   result, embedder, prev, call>>

\* df = spark.sql("SELECT cust_name, ai_query(...) FROM ..."): a lazy plan
VectorizeQuery ==
    /\ pc = "vectorize_query"
    /\ tables[PathOf(config)].exists
    /\ df' = [kind |-> "query", path |-> PathOf(config), rows |-> <<>>]
    /\ pc' = "save_embeddings"
    /\ aiCalls' = <<>>
    /\ UNCHANGED <<widgets, config, session, namespaces, tables, udfs, result,
                   embedder, prev, call>>

\* the texts a plan sends to ai_query when it is evaluated: one per row
AiTexts(d) ==
    IF d.kind = "local" THEN <<>>
    ELSE LET t == tables[d.path].rows
         IN  [i \in 1..Len(t) |-> t[i].cust_name]

\* an evaluation that embeds every distinct name once and keeps one row of it
RECURSIVE Dedup(_)
Dedup(rows) ==
    IF rows = <<>> THEN <<>>
    ELSE LET rest == Dedup(SubSeq(rows, 1, Len(rows) - 1))
             last == rows[Len(rows)]
         IN  IF \E i \in 1..Len(rest) : rest[i] = last THEN rest
             ELSE Append(rest, last)

EvaluateDistinct(d) ==
    IF d.kind = "local" THEN d.rows
    ELSE LET t == tables[d.path].rows
         IN  Dedup([i \in 1..Len(t) |->
                 [cust_name |-> t[i].cust_name,
                  vector_embedding |-> Array(ai_query(t[i].cust_name))]])

\* the rows of a dataframe when it is written
Evaluate(d) ==
    IF d.kind = "local" THEN d.rows
    ELSE LET t == tables[d.path].rows
         IN  [i \in 1..Len(t) |->
                 [cust_name |-> t[i].cust_name,
                  vector_embedding |-> Array(ai_query(t[i].cust_name))]]

\* df.write.mode("overwrite").option("mergeSchema", "true").saveAsTable(...)
SaveEmbeddings ==
    /\ pc = "save_embeddings"
    /\ df.kind # "undefined"
    /\ tables' = [tables EXCEPT ![PathOf(config)] = Table(Evaluate(df))]
    /\ aiCalls' = AiTexts(df)
    /\ pc' = "display_embeddings"
    /\ UNCHANGED <<widgets, config, session, namespaces, df, udfs, result,
                   embedder, prev, call>>

\* display(spark.table(...))
DisplayEmbeddings ==
    /\ pc = "display_embeddings"
    /\ tables[PathOf(config)].exists
    /\ pc' = "register_dot_product"
    /\ aiCalls' = <<>>
    /\ UNCHANGED <<widgets, config, session, namespaces, tables, df, udfs,
                   result, embedder, prev, call>>

\* spark.udf.register("dot_product", dot_product_udf)
RegisterDotProduct ==
    /\ pc = "register_dot_product"
    /\ udfs' = udfs \cup {"dot_product"}
    /\ pc' = "register_vector_norm"
    /\ aiCalls' = <<>>
    /\ UNCHANGED <<widgets, config, session, namespaces, tables, df, result,
                   embedder, prev, call>>

\* spark.udf.register("vector_norm", vector_norm_udf)
RegisterVectorNorm ==
    /\ pc = "register_vector_norm"
    /\ udfs' = udfs \cup {"vector_norm"}
    /\ pc' = "use_catalog"
    /\ aiCalls' = <<>>
    /\ UNCHANGED <<widgets, config, session, namespaces, tables, df, result,
                   embedder, prev, call>>

\* USE CATALOG `{catalog}`; USE SCHEMA `{schema}`
UseCatalog ==
    /\ pc = "use_catalog"
    /\ PathOf(config) \in namespaces
    /\ session' = config
    /\ pc' = "search"
    /\ aiCalls' = <<>>
    /\ UNCHANGED <<widgets, config, namespaces, tables, df, udfs, result,
                   embedder, prev, call>>

(***************************************************************************)
(* The similarity query of the last cell.                                  *)
(***************************************************************************)
\* SELECT t.cust_name, t.vector_embedding, dot_product(...) AS cosine_sim
Scored(cands, emb) ==
    [i \in 1..Len(cands) |->
        [cust_name |-> cands[i].cust_name,
         vector_embedding |-> cands[i].vector_embedding,
         cosine_sim |-> dot_product(cands[i].vector_embedding.v, emb).value]]

\* a filter that keeps the rows at the threshold too
WhereAtLeast(rows) == SelectSeq(rows, LAMBDA r : r.cosine_sim >= Threshold)

\* WHERE dot_product(t.vector_embedding, q.emb) > 0.95
Where(rows) == SelectSeq(rows, LAMBDA r : r.cosine_sim > Threshold)

Descending(rows) ==
    \A i \in 1..(Len(rows) - 1) : rows[i].cosine_sim >= rows[i + 1].cosine_sim

Reorderings(rows) ==
    {[i \in 1..Len(rows) |-> rows[p[i]]] : p \in Permutations(1..Len(rows))}

\* an ordering by ascending score
OrderByAscending(rows) ==
    {r \in Reorderings(rows) :
        \A i \in 1..(Len(r) - 1) : r[i].cosine_sim <= r[i + 1].cosine_sim}

\* ORDER BY cosine_sim DESC: SQL leaves the order of equal scores open
OrderBy(rows) == {r \in Reorderings(rows) : Descending(r)}

Failed(status) == {[status |-> status, rows |-> <<>>]}

\* a query that drops the rows it cannot compare and scores the others
SearchOutcomesSkipping(cands, emb) ==
    LET ok == SelectSeq(cands, LAMBDA c :
                  /\ ~c.vector_embedding.null
                  /\ Len(c.vector_embedding.v) = Len(emb))
    IN  {[status |-> "ok", rows |-> r] : r \in OrderBy(Where(Scored(ok, emb)))}

\* a query that may return any of the best rows only
SearchOutcomesBest(cands, emb) ==
    IF \E i \in 1..Len(cands) : cands[i].vector_embedding.null
    THEN Failed("TypeError")
    ELSE IF \E i \in 1..Len(cands) :
                dot_product(cands[i].vector_embedding.v, emb).status # "ok"
    THEN Failed(DimensionMismatch)
    ELSE {[status |-> "ok", rows |-> SubSeq(r, 1, Min(1, Len(r)))] :
              r \in OrderBy(Where(Scored(cands, emb)))}

\* what the query can return on the rows cands and the query embedding emb:
\* an exception of the UDF on any row fails the whole query
SearchOutcomes(cands, emb) ==
    IF \E i \in 1..Len(cands) : cands[i].vector_embedding.null
    THEN Failed("TypeError")
    ELSE IF \E i \in 1..Len(cands) :
                dot_product(cands[i].vector_embedding.v, emb).status # "ok"
    THEN Failed(DimensionMismatch)
    ELSE {[status |-> "ok", rows |-> r] : r \in OrderBy(Where(Scored(cands, emb)))}

\* the %sql cell; it can be run again once it has run
Search ==
    /\ pc \in {"search", "done"}
    /\ pc' = "done"
    /\ aiCalls' = <<QueryText>>
    /\ prev' = result
    /\ LET emb == ai_query(QueryText)
           t   == tables[SearchPath]
       IN  IF "dot_product" \notin udfs
           THEN result' = [status |-> "UnresolvedRoutine", path |-> SearchPath,
                           emb |-> emb, cands |-> <<>>, rows |-> <<>>]
           ELSE IF ~t.exists
           THEN result' = [status |-> "TableNotFound", path |-> SearchPath,
                           emb |-> emb, cands |-> <<>>, rows |-> <<>>]
           ELSE \E o \in SearchOutcomes(t.rows, emb) :
                    result' = [status |-> o.status, path |-> SearchPath,
                               emb |-> emb, cands |-> t.rows, rows |-> o.rows]
    /\ UNCHANGED <<widgets, config, session, namespaces, tables, df, udfs,
                   embedder, call>>

\* "Run all" once more
RunAll ==
    /\ pc = "done"
    /\ pc' = "widgets"
    /\ UNCHANGED <<widgets, config, session, namespaces, tables, df, udfs,
                   aiCalls, result, embedder, prev, call>>

Next ==
    \/ CreateWidgets
    \/ \E c \in Catalogs, s \in Schemas : SetWidget(c, s)
    \/ ReadConfig
    \/ CreateTable
    \/ DisplayTable
    \/ VectorizeQuery
    \/ SaveEmbeddings
    \/ DisplayEmbeddings
    \/ RegisterDotProduct
    \/ RegisterVectorNorm
    \/ UseCatalog
    \/ Search
    \/ RunAll

Spec == Init /\ [][Next]_vars

MathInit ==
    /\ widgets = [catalog |-> DefaultCatalog, schema |-> DefaultSchema]
    /\ config = Undefined
    /\ session = Undefined
    /\ namespaces = {}
    /\ tables = [p \in Paths |-> NoTable]
    /\ df = NoDataFrame
    /\ udfs = {}
    /\ aiCalls = <<>>
    /\ result = NoResult
    /\ prev = NoResult
    /\ pc = "widgets"
    /\ embedder = [t \in Texts |-> <<10, 5>>]
    /\ call \in Calls

MathSpec == MathInit /\ [][MathNext]_vars

(***************************************************************************)
(* Properties.                                                             *)
(***************************************************************************)
BagOf(seq) == [x \in Range(seq) |-> Cardinality({i \in 1..Len(seq) : seq[i] = x})]

Score(c, emb) == SumProducts(c.vector_embedding.v, emb, Len(emb))

WellFormed(c, emb) ==
    ~c.vector_embedding.null /\ Len(c.vector_embedding.v) = Len(emb)

\* the rows of cands above the threshold, with their scores
Above(cands, emb) ==
    LET idx == {i \in 1..Len(cands) : Score(cands[i], emb) > Threshold}
    IN  [r \in {[cust_name |-> cands[i].cust_name,
                 vector_embedding |-> cands[i].vector_embedding,
                 cosine_sim |-> Score(cands[i], emb)] : i \in idx} |->
            Cardinality({i \in idx :
                /\ cands[i].cust_name = r.cust_name
                /\ cands[i].vector_embedding = r.vector_embedding})]

\* C1: a search that completes returns one row for each candidate row whose
\* dot product with the query embedding is strictly above the threshold,
\* and nothing else: a score equal to the threshold is left out, and rows
\* with the same name are each returned.
SearchReturnsRowsAboveThreshold ==
    result.status = "ok" =>
        BagOf(result.rows) = Above(result.cands, result.emb)

\* a search that left out a row at the threshold and returned two rows of
\* the same name
SearchAtThresholdWitness ==
    /\ result.status = "ok"
    /\ \E i \in 1..Len(result.cands) :
           Score(result.cands[i], result.emb) = Threshold
    /\ \E i, j \in 1..Len(result.rows) :
           i # j /\ result.rows[i].cust_name = result.rows[j].cust_name

\* C2: the rows a search returns are in descending order of score.
SearchOrderedByDescendingScore ==
    result.status = "ok" =>
        \A i \in 1..(Len(result.rows) - 1) :
            result.rows[i].cosine_sim >= result.rows[i + 1].cosine_sim

SearchOrderedWitness ==
    /\ result.status = "ok"
    /\ \E i \in 1..(Len(result.rows) - 1) :
           result.rows[i].cosine_sim > result.rows[i + 1].cosine_sim

Returned == call.ret # Pending

\* C3: dot_product on vectors of different lengths fails with the
\* dimension-mismatch error, and on vectors of the same length it returns
\* the sum of the elementwise products.
DotProductChecksLengths ==
    (call.fn = "dot_product" /\ Returned) =>
        IF Len(call.vec1) # Len(call.vec2)
        THEN call.ret.status = DimensionMismatch
        ELSE /\ call.ret.status = "ok"
             /\ call.ret.value = SumProducts(call.vec1, call.vec2, Len(call.vec1))

DotProductMismatchWitness ==
    /\ call.fn = "dot_product"
    /\ Returned
    /\ Len(call.vec1) = 2
    /\ Len(call.vec2) = 1
    /\ call.ret.status = DimensionMismatch

\* C4 as stated: vector_norm fails with InvalidOrder for every order <= 0,
\* and with the order omitted it computes the Euclidean norm.
VectorNormRejectsNonPositiveOrder ==
    /\ (call.fn = "vector_norm" /\ Returned /\ call.ord <= 0) =>
           call.ret.status = InvalidOrder
    /\ (call.fn = "vector_norm_default" /\ Returned) =>
           call.ret = [status |-> "ok",
                       value |-> FlSqrtInt(SumProducts(call.vec1, call.vec1, Len(call.vec1)))]

\* C4, amended: vector_norm never fails on the order: for an order <= 0 it
\* returns a number (for order 0 the count of the non-zero components, for
\* order -1 zero when a component is zero), and with the order omitted it
\* computes the Euclidean norm.
VectorNormAcceptsEveryOrder ==
    /\ (call.fn = "vector_norm" /\ Returned /\ call.ord <= 0) =>
           /\ call.ret.status = "ok"
           /\ call.ord = 0 =>
                  call.ret.value =
                      FlFromInt(Cardinality({i \in 1..Len(call.vec1) : call.vec1[i] # 0}))
           /\ (call.ord = -1 /\ \E i \in 1..Len(call.vec1) : call.vec1[i] = 0) =>
                  call.ret.value = FlZero
    /\ (call.fn = "vector_norm_default" /\ Returned) =>
           call.ret = [status |-> "ok",
                       value |-> FlSqrtInt(SumProducts(call.vec1, call.vec1, Len(call.vec1)))]

VectorNormNegativeOrderWitness ==
    /\ call.fn = "vector_norm"
    /\ Returned
    /\ call.ord = -1
    /\ call.vec1 = <<3, 3>>
    /\ call.ret.status = "ok"

Searched == result.status \in {"ok", DimensionMismatch, "TypeError"}

HasMismatch(cands, emb) ==
    \E i \in 1..Len(cands) :
        /\ ~cands[i].vector_embedding.null
        /\ Len(cands[i].vector_embedding.v) # Len(emb)

\* C5 as stated: when a candidate's embedding has another length than the
\* query embedding, the search skips that candidate only, completes, and
\* returns the other candidates above the threshold in descending order.
SearchSkipsMismatchedCandidate ==
    (Searched /\ HasMismatch(result.cands, result.emb)) =>
        /\ result.status = "ok"
        /\ BagOf(result.rows) =
               Above(SelectSeq(result.cands, LAMBDA c : WellFormed(c, result.emb)),
                     result.emb)
        /\ Descending(result.rows)

\* C5, amended: when a candidate's embedding has another length than the
\* query embedding, the whole search fails with the dimension-mismatch
\* error and returns no row, whatever the other candidates score.
SearchFailsOnMismatchedCandidate ==
    (Searched /\ HasMismatch(result.cands, result.emb)) =>
        /\ result.status = DimensionMismatch
        /\ result.rows = <<>>

\* a failed search over rows one of which is above the threshold
SearchMismatchWitness ==
    /\ result.status = DimensionMismatch
    /\ HasMismatch(result.cands, result.emb)
    /\ \E i \in 1..Len(result.cands) :
           /\ WellFormed(result.cands[i], result.emb)
           /\ Score(result.cands[i], result.emb) > Threshold

NamesOf(rows) == [i \in 1..Len(rows) |-> rows[i].cust_name]

\* C6: the rows of a table have a name only until the vectorization has
\* run, and after it every row has its name and the one embedding that one
\* ai_query call for that row returned; no step adds or removes rows, so the
\* names of every table, duplicates counted, are those of retailer_names.
EmbeddingOnlyAfterVectorization ==
    /\ pc \in {"display_table", "vectorize_query", "save_embeddings"} =>
           /\ tables[PathOf(config)].exists
           /\ \A i \in 1..Len(tables[PathOf(config)].rows) :
                  tables[PathOf(config)].rows[i].vector_embedding.null
    /\ pc = "display_embeddings" =>
           LET rows == tables[PathOf(config)].rows
           IN  /\ tables[PathOf(config)].exists
               /\ aiCalls = NamesOf(rows)
               /\ \A i \in 1..Len(rows) :
                      rows[i].vector_embedding = Array(embedder[rows[i].cust_name])
    /\ \A p \in Paths :
           tables[p].exists =>
               /\ BagOf(NamesOf(tables[p].rows)) = BagOf(retailer_names)
               /\ \/ \A i \in 1..Len(tables[p].rows) :
                         tables[p].rows[i].vector_embedding.null
                  \/ \A i \in 1..Len(tables[p].rows) :
                         ~tables[p].rows[i].vector_embedding.null

\* the vectorization has just run on a table with a name that occurs twice
VectorizedWitness ==
    /\ pc = "display_embeddings"
    /\ \E i, j \in 1..Len(tables[PathOf(config)].rows) :
           /\ i # j
           /\ tables[PathOf(config)].rows[i] = tables[PathOf(config)].rows[j]
           /\ ~tables[PathOf(config)].rows[i].vector_embedding.null

SumSquares(vec) == SumProducts(vec, vec, Len(vec))

NormOfOrder2 ==
    /\ Returned
    /\ \/ call.fn = "vector_norm" /\ call.ord = 2
       \/ call.fn = "vector_norm_default"

\* C7 as stated: dot_product(a, a) equals the square of vector_norm(a, 2).
DotProductIsNormSquared ==
    NormOfOrder2 =>
        FlSquare(call.ret.value) = FlFromInt(dot_product(call.vec1, call.vec1).value)

IsSquare(n) == \E r \in 0..n : r * r = n

\* |f - n| <= n * 4 / 2^MantBits, for a float f with f.e <= 0
WithinRounding(f, n) ==
    LET scaled == n * Pow2(-f.e)
    IN  Abs(f.m - scaled) * Pow2(MantBits) <= 4 * scaled

\* C7, amended: vector_norm(a, 2) is the rounded square root of
\* dot_product(a, a), so its square equals dot_product(a, a) up to rounding
\* only (a relative error of at most 4 units of roundoff), and exactly when
\* the sum of the squares is the square of an integer.
DotProductIsNormSquaredRounded ==
    NormOfOrder2 =>
        LET sq == FlSquare(call.ret.value)
            n  == dot_product(call.vec1, call.vec1).value
        IN  /\ call.ret.status = "ok"
            /\ ~sq.inf
            /\ sq.e <= 0
            /\ WithinRounding(sq, n)
            /\ IsSquare(n) => sq = FlFromInt(n)

\* the norm of a vector whose squared norm is not its sum of squares
NormSquaredInexactWitness ==
    /\ NormOfOrder2
    /\ call.vec1 = <<1, 1>>
    /\ FlSquare(call.ret.value) # FlFromInt(SumSquares(call.vec1))

\* C8: dot_product(a, b) = dot_product(b, a) for vectors of one length.
DotProductCommutes ==
    (call.fn = "dot_product" /\ Returned /\ Len(call.vec1) = Len(call.vec2)) =>
        call.ret = dot_product(call.vec2, call.vec1)

DotProductCommutesWitness ==
    /\ call.fn = "dot_product"
    /\ Returned
    /\ call.vec1 = <<3, 4>>
    /\ call.vec2 = <<1, -1>>
    /\ call.ret.value = -1

SameInputs ==
    /\ prev.status # "none"
    /\ prev.path = result.path
    /\ prev.emb = result.emb
    /\ prev.cands = result.cands

SearchStep == pc \in {"search", "done"} /\ pc' = "done"

\* C9 as stated: a search changes no table, and a search on the inputs of
\* the search before it returns the same rows in the same order.
SearchIsDeterministic ==
    [][SearchStep =>
           /\ tables' = tables
           /\ SameInputs' => (result'.status = prev'.status /\ result'.rows = prev'.rows)]_vars

\* C9, amended: a search changes no table, and a search on the inputs of
\* the search before it returns the same rows in descending order of score;
\* the order of rows with equal scores is not fixed.
SearchIsDeterministicUpToTies ==
    [][SearchStep =>
           /\ tables' = tables
           /\ embedder' = embedder
           /\ SameInputs' =>
                  /\ result'.status = prev'.status
                  /\ BagOf(result'.rows) = BagOf(prev'.rows)
                  /\ Descending(result'.rows)
                  /\ Descending(prev'.rows)]_vars

\* two searches on the same inputs that returned rows of equal score in two
\* orders
SearchTwiceWitness ==
    /\ pc = "done"
    /\ SameInputs
    /\ result.status = "ok"
    /\ result.rows # prev.rows
    /\ BagOf(result.rows) = BagOf(prev.rows)

\* C10: the table the similarity query reads is the table of the configured
\* catalog and schema, which the two steps before it wrote.
SearchReadsConfiguredTable ==
    (pc = "done" /\ result.status # "none") =>
        /\ result.path = PathOf(config)
        /\ result.path = df.path

CreateTableStep == pc = "create_table" /\ pc' = "display_table"

SaveEmbeddingsStep == pc = "save_embeddings" /\ pc' = "display_embeddings"

\* C11: each run of the create-table cell leaves in the configured table one
\* name-only row per entry of retailer_names, whatever the table held, and
\* each run of the vectorization after it leaves one row with an embedding
\* per entry; the rows stay name-only from the one to the other, and no
\* other cell changes a table, so rows never pile up over the runs.
RerunKeepsOneRowPerName ==
    [][/\ CreateTableStep => tables'[PathOf(config)] = Table(NameRows)
       /\ SaveEmbeddingsStep =>
              LET before == tables[PathOf(config)]
                  after  == tables'[PathOf(config)]
              IN  /\ before = Table(NameRows)
                  /\ after.exists
                  /\ Len(after.rows) = Len(retailer_names)
                  /\ \A i \in 1..Len(after.rows) :
                         /\ after.rows[i].cust_name = retailer_names[i]
                         /\ ~after.rows[i].vector_embedding.null
       /\ \A p \in Paths :
              tables'[p] # tables[p] =>
                  /\ p = PathOf(config)
                  /\ CreateTableStep \/ SaveEmbeddingsStep]_vars

\* the create-table cell has run again on the table that the search of the
\* run before read with its embeddings
CreateTableRerunWitness ==
    /\ pc = "display_table"
    /\ result.status = "ok"
    /\ result.path = PathOf(config)
    /\ Len(result.cands) = Len(retailer_names)
    /\ tables[PathOf(config)] = Table(NameRows)

====
